---- MODULE Spec2Model ----
(***************************************************************************)
(* express-zod-validations: the configure middleware expressZodValidations *)
(* and the validate middleware of src/src/index.ts, run as a pipeline of   *)
(* middlewares on one request.                                             *)
(***************************************************************************)
EXTENDS Naturals, Sequences, FiniteSets, TLC

\* ------------------------------------------------------------------ bounds
MaxEntries == 2          \* schema-map entries of all the validate middlewares
                         \* run on the request, taken together
MaxConfigures == 1       \* configure middlewares run on the request
MaxRequests == 2         \* requests in flight at the same time

\* ------------------------------------------------------------ value domain
\* an optional value: undefined is <<>>, a defined value x is <<x>>
Undefined == <<>>
Some(x) == <<x>>

\* type ValidationKey (index.ts:9)
ValidationKey == {"headers", "params", "query", "body"}

\* the data a request part can hold: empty, not normalised, normalised
RawData == {"", " A "}
Data == {"", " A ", "a"}

\* the zod schemas: z.string().trim().toLowerCase() accepts every string and
\* transforms it; z.string().regex(/[A-Z]/) rejects a string without an upper
\* case letter; a schema whose async refinement throws; and a missing
\* (undefined) schema
Schemas == {"trimLower", "hasUpper", "throwing"}
NullSchema == "undefined"

\* String.prototype.trim followed by toLowerCase, on the data domain
TrimLower(d) == IF d = " A " THEN "a" ELSE d

\* the ZodError of a rejected check, and the exception of a throwing one
ZodError(schema, d) == [name |-> "ZodError", schema |-> schema, input |-> d]
Exception(schema, d) == [name |-> "Error", schema |-> schema, input |-> d]

\* schema.safeParseAsync(data): success with the output, failure with the
\* ZodError, or a rejected promise (kind "throw")
SafeParseAsync(schema, d) ==
    CASE schema = "trimLower" ->
           [kind |-> "success", data |-> Some(TrimLower(d)), error |-> Undefined]
      [] schema = "hasUpper" ->
           IF d = " A "
           THEN [kind |-> "success", data |-> Some(d), error |-> Undefined]
           ELSE [kind |-> "failure", data |-> Undefined,
                 error |-> Some(ZodError(schema, d))]
      [] OTHER ->
           [kind |-> "throw", data |-> Undefined,
            error |-> Some(Exception(schema, d))]

\* ------------------------------------------------------ objects as maps
EmptyMap == [k \in {} |-> ""]
MapSet(m, key, v) == [k \in (DOMAIN m) \cup {key} |-> IF k = key THEN v ELSE m[k]]
MapDelete(m, key) == [k \in (DOMAIN m) \ {key} |-> m[k]]

\* the entry of key in an optional map: undefined when the map or the entry
\* is missing
Lookup(optMap, key) ==
    IF optMap = Undefined THEN Undefined
    ELSE IF key \in DOMAIN optMap[1] THEN Some(optMap[1][key]) ELSE Undefined

\* interface ValidationConfigs: both fields optional
ConfigFields == {"throwErrors", "overwriteRequest"}
ConfigsSet == UNION {[S -> BOOLEAN] : S \in SUBSET ConfigFields}

\* the schema maps passed to validate: the entries of an object literal in
\* the order its keys were written, every key at most once
IsSchemaMap(p) == \A i, j \in 1..Len(p) : i # j => p[i].key # p[j].key
EntrySet == [key : ValidationKey, schema : Schemas \cup {NullSchema}]
PropsSet(n) == {p \in [1..n -> EntrySet] : IsSchemaMap(p)}

\* ------------------------------------------------------------------- state
VARIABLES
    req,               \* the live request data, req[key] for the four parts
    validationConfigs, \* req.validationConfigs, optional
    validationErrors,  \* req.validationErrors, optional map key -> ZodError
    validationValues,  \* req.validationValues, optional map key -> data
    pc,                \* "idle": no middleware is running; "loop": inside
                       \* validate's for loop; "returned": the middleware
                       \* called next(); "error": it called next(error)
    mw,                \* the middleware invoked last: none, configure, validate
    props,             \* the schema map of the running validate invocation
    idx,               \* position of the for loop in Object.entries(props)
    throwErrors,       \* the local read at index.ts:42
    overwriteRequest,  \* the local read at index.ts:42
    log,               \* the schema checks run by the invocation, in order
    nextCalls,         \* the calls of next made by the invocation, in order
    before,            \* the request's data and maps when the invocation began
    entries,           \* schema-map entries handed to validate so far
    configures,        \* configure middlewares invoked on the request so far
    allOverwrite,      \* every validate invocation on the request so far
                       \* read overwriteRequest as true
    heap,              \* the configuration objects, by identity: object 0 is
                       \* the configs object handed to expressZodValidations,
                       \* object r the one request r's validate creates
    rConfigs,          \* per request: the object req.validationConfigs refers to
    rOwn,              \* per request: the record it stored, with its own writes
    rSeen,             \* per request: the switches its validate read
    rStep              \* per request: new, configured, validated

rvars == <<heap, rConfigs, rOwn, rSeen, rStep>>

vars == <<req, validationConfigs, validationErrors, validationValues, pc, mw,
          props, idx, throwErrors, overwriteRequest, log, nextCalls, before,
          entries, configures, allOverwrite, rvars>>

\* the requests in flight and the identities of the configuration objects
Requests == 1..MaxRequests
AppConfigs == 0
ObjectIds == {AppConfigs} \cup Requests

Snapshot == [req |-> req, validationConfigs |-> validationConfigs,
             validationErrors |-> validationErrors,
             validationValues |-> validationValues]

\* the request as express hands it to the first middleware
InitRequest ==
    /\ \E b, d \in RawData :
           req = [k \in ValidationKey |-> IF k = "body" THEN b ELSE d]
    /\ validationConfigs = Undefined
    /\ validationErrors = Undefined
    /\ validationValues = Undefined
    /\ pc = "idle"
    /\ mw = "none"
    /\ props = <<>>
    /\ idx = 1
    /\ throwErrors = FALSE
    /\ overwriteRequest = FALSE
    /\ log = <<>>
    /\ nextCalls = <<>>
    /\ before = Snapshot
    /\ entries = 0
    /\ configures = 0
    /\ allOverwrite = TRUE

\* no other request is in flight
NoRequests ==
    /\ heap = [o \in ObjectIds |-> EmptyMap]
    /\ rConfigs = [r \in Requests |-> Undefined]
    /\ rOwn = [r \in Requests |-> Undefined]
    /\ rSeen = [r \in Requests |-> Undefined]
    /\ rStep = [r \in Requests |-> "new"]

Init == InitRequest /\ NoRequests

\* --------------------------------------------------------- lines of validate
EnsureObject_Reset(opt) == Some(EmptyMap)

\* x ??= {} (index.ts:38-40)
EnsureObject(opt) == IF opt = Undefined THEN Some(EmptyMap) ELSE opt

ConfigOrDefault_True(configs, field) ==
    IF field \in DOMAIN configs THEN configs[field] ELSE TRUE

\* const { f = false } = req.validationConfigs (index.ts:42-43)
ConfigOrDefault(configs, field) ==
    IF field \in DOMAIN configs THEN configs[field] ELSE FALSE

FixedOrder == <<"headers", "params", "query", "body">>
Rank(key) == CHOOSE i \in 1..Len(FixedOrder) : FixedOrder[i] = key

Entries_FixedOrder(p) ==
    LET keys == SelectSeq(FixedOrder,
                          LAMBDA k : \E i \in 1..Len(p) : p[i].key = k)
    IN  [i \in 1..Len(keys) |->
            CHOOSE e \in {p[j] : j \in 1..Len(p)} : e.key = keys[i]]

\* Object.entries(props) (index.ts:45): the own keys in insertion order
Entries(p) == p

ErrorsOnSuccess_Keep(errors, key) == errors

\* delete req.validationErrors[key] (index.ts:54)
ErrorsOnSuccess(errors, key) == MapDelete(errors, key)

\* req.validationValues[key] = result.data (index.ts:55)
ValuesOnSuccess(values, key, data) == MapSet(values, key, data)

RequestOnSuccess_Always(r, key, data, overwrite) == [r EXCEPT ![key] = data]
RequestOnSuccess_Never(r, key, data, overwrite) == r

\* if (overwriteRequest) req[key] = result.data (index.ts:56)
RequestOnSuccess(r, key, data, overwrite) ==
    IF overwrite THEN [r EXCEPT ![key] = data] ELSE r

\* req.validationErrors[key] = result.error (index.ts:58)
ErrorsOnFailure(errors, key, error) == MapSet(errors, key, error)

ValuesOnFailure_Keep(values, key) == values

\* delete req.validationValues[key] (index.ts:59)
ValuesOnFailure(values, key) == MapDelete(values, key)

ReturnsOnFailure_Never(throw) == FALSE
ReturnsOnFailure_Always(throw) == TRUE

\* if (throwErrors) return next(result.error) (index.ts:60)
ReturnsOnFailure(throw) == throw

\* the record of one schema check
Check(e, result) ==
    [key |-> e.key, schema |-> e.schema, input |-> req[e.key], result |-> result]

\* ------------------------------------------------------------- middlewares
\* expressZodValidations(configs) (index.ts:27-32)
ExpressZodValidations(configs) ==
    /\ pc = "idle"
    /\ UNCHANGED <<rvars, allOverwrite>>
    /\ configures < MaxConfigures
    /\ validationConfigs' = Some(configs)
    /\ mw' = "configure"
    /\ nextCalls' = <<Undefined>>
    /\ pc' = "returned"
    /\ configures' = configures + 1
    /\ UNCHANGED <<req, validationErrors, validationValues, props, idx,
                   throwErrors, overwriteRequest, log, before, entries>>

\* validate(props): entry of the middleware up to the for loop (index.ts:36-45)
ValidateStart(p) ==
    /\ pc = "idle"
    /\ UNCHANGED rvars
    /\ entries + Len(p) <= MaxEntries
    /\ validationConfigs' = EnsureObject(validationConfigs)
    /\ validationErrors' = EnsureObject(validationErrors)
    /\ validationValues' = EnsureObject(validationValues)
    /\ throwErrors' = ConfigOrDefault(validationConfigs'[1], "throwErrors")
    /\ overwriteRequest' = ConfigOrDefault(validationConfigs'[1], "overwriteRequest")
    /\ allOverwrite' = (allOverwrite /\ overwriteRequest')
    /\ props' = p
    /\ idx' = 1
    /\ pc' = "loop"
    /\ mw' = "validate"
    /\ log' = <<>>
    /\ nextCalls' = <<>>
    /\ before' = Snapshot
    /\ entries' = entries + Len(p)
    /\ UNCHANGED <<req, configures>>

\* if (!schema) continue (index.ts:49)
ValidateSkip ==
    /\ pc = "loop"
    /\ UNCHANGED <<rvars, allOverwrite>>
    /\ idx <= Len(Entries(props))
    /\ Entries(props)[idx].schema = NullSchema
    /\ idx' = idx + 1
    /\ UNCHANGED <<req, validationConfigs, validationErrors, validationValues,
                   pc, mw, props, throwErrors, overwriteRequest, log,
                   nextCalls, before, entries, configures>>

\* the schema check accepts (index.ts:51-56)
ValidateSuccess ==
    /\ pc = "loop"
    /\ UNCHANGED <<rvars, allOverwrite>>
    /\ idx <= Len(Entries(props))
    /\ LET e == Entries(props)[idx]
           result == SafeParseAsync(e.schema, req[e.key])
       IN /\ e.schema # NullSchema
          /\ result.kind = "success"
          /\ validationErrors' = Some(ErrorsOnSuccess(validationErrors[1], e.key))
          /\ validationValues' =
                 Some(ValuesOnSuccess(validationValues[1], e.key, result.data[1]))
          /\ req' = RequestOnSuccess(req, e.key, result.data[1], overwriteRequest)
          /\ log' = Append(log, Check(e, result))
    /\ idx' = idx + 1
    /\ UNCHANGED <<validationConfigs, pc, mw, props, throwErrors,
                   overwriteRequest, nextCalls, before, entries, configures>>

\* the schema check rejects (index.ts:51, 57-61)
ValidateFailure ==
    /\ pc = "loop"
    /\ UNCHANGED <<rvars, allOverwrite>>
    /\ idx <= Len(Entries(props))
    /\ LET e == Entries(props)[idx]
           result == SafeParseAsync(e.schema, req[e.key])
       IN /\ e.schema # NullSchema
          /\ result.kind = "failure"
          /\ validationErrors' =
                 Some(ErrorsOnFailure(validationErrors[1], e.key, result.error[1]))
          /\ validationValues' = Some(ValuesOnFailure(validationValues[1], e.key))
          /\ log' = Append(log, Check(e, result))
          /\ IF ReturnsOnFailure(throwErrors)
             THEN /\ nextCalls' = Append(nextCalls, result.error)
                  /\ pc' = "error"
                  /\ idx' = idx
             ELSE /\ idx' = idx + 1
                  /\ UNCHANGED <<nextCalls, pc>>
    /\ UNCHANGED <<req, validationConfigs, mw, props, throwErrors,
                   overwriteRequest, before, entries, configures>>

\* the exception is swallowed and the loop goes on
ValidateThrow_Swallow ==
    /\ pc = "loop"
    /\ UNCHANGED <<rvars, allOverwrite>>
    /\ idx <= Len(Entries(props))
    /\ LET e == Entries(props)[idx]
           result == SafeParseAsync(e.schema, req[e.key])
       IN /\ e.schema # NullSchema
          /\ result.kind = "throw"
          /\ log' = Append(log, Check(e, result))
    /\ idx' = idx + 1
    /\ UNCHANGED <<req, validationConfigs, validationErrors, validationValues,
                   pc, mw, props, throwErrors, overwriteRequest, nextCalls,
                   before, entries, configures>>

\* the schema check throws: catch (error) { next(error) } (index.ts:51, 65-67)
ValidateThrow ==
    /\ pc = "loop"
    /\ UNCHANGED <<rvars, allOverwrite>>
    /\ idx <= Len(Entries(props))
    /\ LET e == Entries(props)[idx]
           result == SafeParseAsync(e.schema, req[e.key])
       IN /\ e.schema # NullSchema
          /\ result.kind = "throw"
          /\ log' = Append(log, Check(e, result))
          /\ nextCalls' = Append(nextCalls, result.error)
    /\ pc' = "error"
    /\ UNCHANGED <<req, validationConfigs, validationErrors, validationValues,
                   mw, props, idx, throwErrors, overwriteRequest, before,
                   entries, configures>>

\* the loop is over: next() (index.ts:64)
ValidateNext ==
    /\ pc = "loop"
    /\ UNCHANGED <<rvars, allOverwrite>>
    /\ idx > Len(Entries(props))
    /\ nextCalls' = Append(nextCalls, Undefined)
    /\ pc' = "returned"
    /\ UNCHANGED <<req, validationConfigs, validationErrors, validationValues,
                   mw, props, idx, throwErrors, overwriteRequest, log, before,
                   entries, configures>>

\* express hands the request to the next handler of the stack; the frame of
\* the middleware that called next() is gone
Dispatch ==
    /\ pc = "returned"
    /\ UNCHANGED <<rvars, allOverwrite>>
    /\ pc' = "idle"
    /\ mw' = "none"
    /\ props' = <<>>
    /\ idx' = 1
    /\ throwErrors' = FALSE
    /\ overwriteRequest' = FALSE
    /\ log' = <<>>
    /\ nextCalls' = <<>>
    /\ before' = Snapshot
    /\ UNCHANGED <<req, validationConfigs, validationErrors, validationValues,
                   entries, configures>>

Next ==
    \/ \E configs \in ConfigsSet : ExpressZodValidations(configs)
    \/ \E n \in 0..(MaxEntries - entries) : \E p \in PropsSet(n) : ValidateStart(p)
    \/ ValidateSkip
    \/ ValidateSuccess
    \/ ValidateFailure
    \/ ValidateThrow
    \/ ValidateNext
    \/ Dispatch

Spec == Init /\ [][Next]_vars

TypeOK ==
    /\ req \in [ValidationKey -> Data]
    /\ pc \in {"idle", "loop", "returned", "error"}
    /\ mw \in {"none", "configure", "validate"}
    /\ Len(props) <= MaxEntries
    /\ IsSchemaMap(props)
    /\ \A i \in 1..Len(props) : props[i] \in EntrySet
    /\ entries \in 0..MaxEntries
    /\ configures \in 0..MaxConfigures

\* ------------------------------------------------- untyped schema maps
\* ValidationProps is a compile-time type: a caller written in JavaScript, or
\* one that casts, can hand validate an object with any key. The request
\* carries one more property, req.cookies, and schema maps may name it.
OtherKey == "cookies"
RequestKeys == ValidationKey \cup {OtherKey}

UntypedEntrySet == [key : RequestKeys, schema : Schemas \cup {NullSchema}]
UntypedPropsSet(n) == {p \in [1..n -> UntypedEntrySet] : IsSchemaMap(p)}

InitUntyped ==
    /\ \E b, d \in RawData :
           req = [k \in RequestKeys |-> IF k = "body" THEN b ELSE d]
    /\ validationConfigs = Undefined
    /\ validationErrors = Undefined
    /\ validationValues = Undefined
    /\ pc = "idle"
    /\ mw = "none"
    /\ props = <<>>
    /\ idx = 1
    /\ throwErrors = FALSE
    /\ overwriteRequest = FALSE
    /\ log = <<>>
    /\ nextCalls = <<>>
    /\ before = Snapshot
    /\ entries = 0
    /\ configures = 0
    /\ allOverwrite = TRUE
    /\ NoRequests

NextUntyped ==
    \/ \E configs \in ConfigsSet : ExpressZodValidations(configs)
    \/ \E n \in 0..(MaxEntries - entries) :
           \E p \in UntypedPropsSet(n) : ValidateStart(p)
    \/ ValidateSkip
    \/ ValidateSuccess
    \/ ValidateFailure
    \/ ValidateThrow
    \/ ValidateNext
    \/ Dispatch

SpecUntyped == InitUntyped /\ [][NextUntyped]_vars

\* ------------------------------------------------------ a next that throws
\* The calls of next at index.ts:60 and 64 are inside the try block: when the
\* call raises synchronously, the catch block of lines 65-67 calls next again,
\* with the exception.
NextException == [name |-> "Error", schema |-> NullSchema, input |-> ""]

\* the loop is over, next() raises, catch (error) { next(error) }
\* (index.ts:64-67)
ValidateNextThrows ==
    /\ pc = "loop"
    /\ UNCHANGED <<rvars, allOverwrite>>
    /\ idx > Len(Entries(props))
    /\ nextCalls' = nextCalls \o <<Undefined, Some(NextException)>>
    /\ pc' = "error"
    /\ UNCHANGED <<req, validationConfigs, validationErrors, validationValues,
                   mw, props, idx, throwErrors, overwriteRequest, log, before,
                   entries, configures>>

\* the schema check rejects under throwErrors, next(result.error) raises,
\* catch (error) { next(error) } (index.ts:51, 57-60, 65-67)
ValidateFailureNextThrows ==
    /\ pc = "loop"
    /\ UNCHANGED <<rvars, allOverwrite>>
    /\ idx <= Len(Entries(props))
    /\ ReturnsOnFailure(throwErrors)
    /\ LET e == Entries(props)[idx]
           result == SafeParseAsync(e.schema, req[e.key])
       IN /\ e.schema # NullSchema
          /\ result.kind = "failure"
          /\ validationErrors' =
                 Some(ErrorsOnFailure(validationErrors[1], e.key, result.error[1]))
          /\ validationValues' = Some(ValuesOnFailure(validationValues[1], e.key))
          /\ log' = Append(log, Check(e, result))
          /\ nextCalls' = nextCalls \o <<result.error, Some(NextException)>>
    /\ pc' = "error"
    /\ UNCHANGED <<req, validationConfigs, mw, props, idx, throwErrors,
                   overwriteRequest, before, entries, configures>>

NextThrowingNext ==
    \/ Next
    \/ ValidateNextThrows
    \/ ValidateFailureNextThrows

SpecThrowingNext == Init /\ [][NextThrowingNext]_vars

\* ------------------------------------------------- requests side by side
\* Several requests pass through app.use(expressZodValidations(configs)) and
\* a validate middleware; between the two a handler of the request may write
\* a switch of req.validationConfigs. The steps of the requests interleave.

\* the switches validate reads from a configuration record (index.ts:42-43)
Switches(configs) == [f \in ConfigFields |-> ConfigOrDefault(configs, f)]

InitRequests ==
    /\ InitRequest
    /\ \E configs \in ConfigsSet :
           heap = [o \in ObjectIds |-> IF o = AppConfigs THEN configs ELSE EmptyMap]
    /\ rConfigs = [r \in Requests |-> Undefined]
    /\ rOwn = [r \in Requests |-> Undefined]
    /\ rSeen = [r \in Requests |-> Undefined]
    /\ rStep = [r \in Requests |-> "new"]

\* expressZodValidations on request r: req.validationConfigs = configs stores
\* the configs object itself (index.ts:30)
RequestConfigure(r) ==
    /\ rStep[r] = "new"
    /\ rConfigs' = [rConfigs EXCEPT ![r] = Some(AppConfigs)]
    /\ rOwn' = [rOwn EXCEPT ![r] = Some(heap[AppConfigs])]
    /\ rStep' = [rStep EXCEPT ![r] = "configured"]
    /\ UNCHANGED <<heap, rSeen>>
    /\ UNCHANGED <<req, validationConfigs, validationErrors, validationValues,
                   pc, mw, props, idx, throwErrors, overwriteRequest, log,
                   nextCalls, before, entries, configures, allOverwrite>>

\* a handler of request r sets a switch: req.validationConfigs[field] = value
RequestWrite(r, field, value) ==
    /\ rStep[r] = "configured"
    /\ heap' = [heap EXCEPT ![rConfigs[r][1]] = MapSet(@, field, value)]
    /\ rOwn' = [rOwn EXCEPT ![r] = Some(MapSet(@[1], field, value))]
    /\ UNCHANGED <<rConfigs, rSeen, rStep>>
    /\ UNCHANGED <<req, validationConfigs, validationErrors, validationValues,
                   pc, mw, props, idx, throwErrors, overwriteRequest, log,
                   nextCalls, before, entries, configures, allOverwrite>>

\* validate on request r: req.validationConfigs ??= {} and the read of the
\* two switches (index.ts:38-43)
RequestValidate(r) ==
    /\ rStep[r] \in {"new", "configured"}
    /\ rConfigs' = [rConfigs EXCEPT ![r] = IF @ = Undefined THEN Some(r) ELSE @]
    /\ rOwn' = [rOwn EXCEPT ![r] = EnsureObject(@)]
    /\ rSeen' = [rSeen EXCEPT ![r] = Some(Switches(heap[rConfigs'[r][1]]))]
    /\ rStep' = [rStep EXCEPT ![r] = "validated"]
    /\ UNCHANGED heap
    /\ UNCHANGED <<req, validationConfigs, validationErrors, validationValues,
                   pc, mw, props, idx, throwErrors, overwriteRequest, log,
                   nextCalls, before, entries, configures, allOverwrite>>

NextRequests ==
    \/ \E r \in Requests : RequestConfigure(r)
    \/ \E r \in Requests : \E field \in ConfigFields : \E value \in BOOLEAN :
           RequestWrite(r, field, value)
    \/ \E r \in Requests : RequestValidate(r)

SpecRequests == InitRequests /\ [][NextRequests]_vars

\* ------------------------------------------------------------- vocabulary
\* a validate invocation is running or has called next
InValidate == mw = "validate"

\* the validate invocation has called next, with or without an error
ValidateReturned == mw = "validate" /\ pc \in {"returned", "error"}

\* the switches of the configuration record the invocation read
ThrowErrorsSet ==
    /\ validationConfigs # Undefined
    /\ "throwErrors" \in DOMAIN validationConfigs[1]
    /\ validationConfigs[1]["throwErrors"]

OverwriteRequestSet ==
    /\ validationConfigs # Undefined
    /\ "overwriteRequest" \in DOMAIN validationConfigs[1]
    /\ validationConfigs[1]["overwriteRequest"]

Accepted(i) == log[i].result.kind = "success"
Rejected(i) == log[i].result.kind = "failure"
Threw(i) == log[i].result.kind = "throw"

\* the outcome of check i is what the two maps hold for its part
OutcomeRecorded(i) ==
    /\ Accepted(i) =>
          /\ Lookup(validationValues, log[i].key) = log[i].result.data
          /\ Lookup(validationErrors, log[i].key) = Undefined
    /\ Rejected(i) =>
          /\ Lookup(validationErrors, log[i].key) = log[i].result.error
          /\ Lookup(validationValues, log[i].key) = Undefined

\* the keys of the checks run so far, in the order they were run
LogKeys == [i \in 1..Len(log) |-> log[i].key]

\* the keys of a schema map that carry a schema, in the map's own order
ConfiguredKeys(p) ==
    LET nonNull == SelectSeq(p, LAMBDA e : e.schema # NullSchema)
    IN  [i \in 1..Len(nonNull) |-> nonNull[i].key]

ConfiguredKeySet(p) == {p[i].key : i \in {j \in 1..Len(p) : p[j].schema # NullSchema}}

\* ------------------------------------------------------------------ claims
\* C1: when a validate invocation has run the check of a part and the schema
\* accepted, then after the invocation the value map holds the schema's output
\* under the part's key and the error map has no entry for it, also when an
\* earlier validator had recorded an error for the key.
C1_AcceptedPartRecorded ==
    ValidateReturned =>
        \A i \in 1..Len(log) :
            Accepted(i) =>
                /\ Lookup(validationValues, log[i].key) =
                       SafeParseAsync(log[i].schema, log[i].input).data
                /\ Lookup(validationErrors, log[i].key) = Undefined

\* an accepted check of a part for which an earlier validator left an error
C1_Witness ==
    /\ ValidateReturned
    /\ \E i \in 1..Len(log) :
          /\ Accepted(i)
          /\ Lookup(before.validationErrors, log[i].key) # Undefined

C3_MapsDisjoint ==
    \A k \in ValidationKey :
        Lookup(validationValues, k) = Undefined
            \/ Lookup(validationErrors, k) = Undefined

\* a key that was in the error map is now in the value map
C3_Witness ==
    /\ InValidate
    /\ \E k \in ValidationKey :
          /\ Lookup(before.validationErrors, k) # Undefined
          /\ Lookup(validationValues, k) # Undefined

\* C4: with overwriteRequest true, the live data of an accepted part equals
\* the schema's output after the invocation; with overwriteRequest false or
\* unset, a validate invocation leaves the live data of every part as it was,
\* whatever the outcomes of its checks.
C4_OverwriteRequest ==
    InValidate =>
        IF OverwriteRequestSet
        THEN ValidateReturned =>
                 \A i \in 1..Len(log) :
                     Accepted(i) => Some(req[log[i].key]) = log[i].result.data
        ELSE req = before.req

\* overwriteRequest is set and an accepted part's data was replaced by a
\* transformed output
C4_Witness ==
    /\ ValidateReturned
    /\ OverwriteRequestSet
    /\ \E i \in 1..Len(log) :
          /\ Accepted(i)
          /\ log[i].result.data # Some(log[i].input)
          /\ req[log[i].key] # before.req[log[i].key]

\* C5: with throwErrors true, a rejected check ends the invocation: next is
\* called once, with that ZodError, no check is run after it, and the
\* outcomes of the earlier checks of the invocation stay in the two maps.
C5_StopsAtFirstFailure ==
    (InValidate /\ ThrowErrorsSet) =>
        \A i \in 1..Len(log) :
            Rejected(i) =>
                /\ i = Len(log)
                /\ pc = "error"
                /\ nextCalls = <<log[i].result.error>>
                /\ \A j \in 1..(i - 1) : OutcomeRecorded(j)

\* a rejected check under throwErrors with a configured part left unchecked
C5_Witness ==
    /\ InValidate
    /\ ThrowErrorsSet
    /\ Len(log) = 1
    /\ Rejected(1)
    /\ Len(ConfiguredKeys(props)) = 2

\* C6 as stated: the checks of an invocation are run in the fixed order
\* headers, params, query, body, whatever the key order of the schema map.
C6_FixedOrder ==
    InValidate =>
        \A i, j \in 1..Len(log) :
            i < j => Rank(log[i].key) < Rank(log[j].key)

\* C6 amended: the checks of an invocation are run in the order in which the
\* keys were written in the schema map, entries without a schema left out; the
\* checks run so far are a prefix of that order, the whole of it once next()
\* was called, and the parts skipped after a failure under throwErrors are the
\* ones that follow the failing part in that order.
C6_InsertionOrder ==
    InValidate =>
        /\ Len(log) <= Len(ConfiguredKeys(props))
        /\ LogKeys = SubSeq(ConfiguredKeys(props), 1, Len(log))
        /\ pc = "returned" => Len(log) = Len(ConfiguredKeys(props))

\* two checks were run against the fixed order, as the schema map lists them
C6_Witness ==
    /\ ValidateReturned
    /\ Len(log) = 2
    /\ Rank(log[1].key) > Rank(log[2].key)
    /\ props[1].key = log[1].key

\* C7 as stated: with throwErrors true, a rejected check's ZodError goes to
\* next(error) and is not recorded in the error map under the part's key.
C7_ThrownErrorNotRecorded ==
    (ValidateReturned /\ ThrowErrorsSet) =>
        \A i \in 1..Len(log) :
            Rejected(i) =>
                /\ nextCalls = <<log[i].result.error>>
                /\ Lookup(validationErrors, log[i].key) # log[i].result.error

\* C8: with throwErrors false or unset and no check throwing, the invocation
\* runs the check of every configured part, rejected ones included, and then
\* calls next once, without an argument.
C8_CollectsAllErrors ==
    (ValidateReturned /\ ~ThrowErrorsSet /\ \A i \in 1..Len(log) : ~Threw(i)) =>
        /\ LogKeys = ConfiguredKeys(props)
        /\ \A i \in 1..Len(log) : OutcomeRecorded(i)
        /\ pc = "returned"
        /\ nextCalls = <<Undefined>>

\* two parts were rejected and both errors are in the error map
C8_Witness ==
    /\ ValidateReturned
    /\ ~ThrowErrorsSet
    /\ Len(log) = 2
    /\ Rejected(1)
    /\ Rejected(2)
    /\ Lookup(validationErrors, log[1].key) # Undefined
    /\ Lookup(validationErrors, log[2].key) # Undefined

\* C9: for every part key that is absent from the schema map or has no schema,
\* the entries of the key in the value map and in the error map are the same
\* during and after the invocation as before it.
C9_OtherPartsUntouched ==
    InValidate =>
        \A k \in ValidationKey \ ConfiguredKeySet(props) :
            /\ Lookup(validationValues, k) = Lookup(before.validationValues, k)
            /\ Lookup(validationErrors, k) = Lookup(before.validationErrors, k)

\* a chained validator ran a check for one part while an earlier validator's
\* result for another part is in a map
C9_Witness ==
    /\ ValidateReturned
    /\ Len(log) > 0
    /\ \E k \in ValidationKey \ ConfiguredKeySet(props) :
          \/ Lookup(validationValues, k) # Undefined
          \/ Lookup(validationErrors, k) # Undefined

\* C10: when a schema check throws, the invocation calls next once, with that
\* exception, the exception is in no entry of the error map, no further check
\* is run, and the outcomes of the earlier checks of the invocation stay in
\* the two maps.
C10_ThrownExceptionForwarded ==
    InValidate =>
        \A i \in 1..Len(log) :
            Threw(i) =>
                /\ i = Len(log)
                /\ pc = "error"
                /\ nextCalls = <<Some(Exception(log[i].schema, log[i].input))>>
                /\ \A k \in ValidationKey :
                       Lookup(validationErrors, k) # log[i].result.error
                /\ Lookup(validationErrors, log[i].key) =
                       Lookup(before.validationErrors, log[i].key)
                /\ \A j \in 1..(i - 1) : OutcomeRecorded(j)

\* a check threw after an earlier check of the invocation was rejected
C10_Witness ==
    /\ InValidate
    /\ Len(log) = 2
    /\ Rejected(1)
    /\ Threw(2)

\* C11 as stated: the configuration record of a request is its own copy, so
\* the switches of the record a request holds change only by that request's
\* own writes, and the switches its validate reads are the ones of the record
\* it stored with its own writes, whatever the other requests do in between.
C11_RequestsIndependent ==
    \A r \in Requests :
        /\ rConfigs[r] # Undefined =>
               Switches(heap[rConfigs[r][1]]) = Switches(rOwn[r][1])
        /\ rSeen[r] # Undefined => rSeen[r][1] = Switches(rOwn[r][1])

\* C12 as stated: only the keys headers, params, query and body of a schema
\* map are validated; for an entry under another key no check is run and
\* nothing is written under that key to the value map, the error map or the
\* live request.
C12_OnlyFourKeys ==
    /\ \A i \in 1..Len(log) : log[i].key \in ValidationKey
    /\ Lookup(validationValues, OtherKey) = Undefined
    /\ Lookup(validationErrors, OtherKey) = Undefined
    /\ InValidate => req[OtherKey] = before.req[OtherKey]

\* C13: a validate invocation works with the record the configure middleware
\* last stored on the request, which it leaves as it is, and reads each of
\* throwErrors and overwriteRequest that the record lacks as false; when no
\* configure middleware ran, it creates an empty record and runs with both
\* switches false: rejected parts are stored and next() is called, and the
\* request data is not overwritten.
C13_EffectiveConfiguration ==
    InValidate =>
        /\ validationConfigs =
               IF before.validationConfigs = Undefined
               THEN Some(EmptyMap) ELSE before.validationConfigs
        /\ throwErrors = ThrowErrorsSet
        /\ overwriteRequest = OverwriteRequestSet
        /\ configures = 0 =>
               /\ validationConfigs = Some(EmptyMap)
               /\ ~throwErrors /\ ~overwriteRequest
               /\ req = before.req
               /\ \A i \in 1..Len(log) : Rejected(i) => OutcomeRecorded(i)
               /\ (ValidateReturned /\ \A i \in 1..Len(log) : ~Threw(i)) =>
                      nextCalls = <<Undefined>>

\* the configure middleware stored a record without throwErrors, and the
\* validator stored a rejected part and went on to next()
C13_Witness ==
    /\ ValidateReturned
    /\ before.validationConfigs # Undefined
    /\ "throwErrors" \notin DOMAIN before.validationConfigs[1]
    /\ "overwriteRequest" \in DOMAIN before.validationConfigs[1]
    /\ \E i \in 1..Len(log) : Rejected(i)
    /\ nextCalls = <<Undefined>>

\* C14 as stated: a validate invocation that has called next has called it
\* exactly once, as next() or as next(error), also when a schema check throws
\* and when the call of next itself raises inside the try block.
C14_NextCalledOnce ==
    /\ ValidateReturned => Len(nextCalls) = 1
    /\ (InValidate /\ pc = "loop") => Len(nextCalls) = 0

\* C15: while every validate invocation on the request has run with
\* overwriteRequest true, every part that has an entry in the value map has
\* live request data equal to that entry; a rejected check removes the part's
\* entry from the value map and leaves the part's live data as it was, that
\* is at the value the last accepted check wrote.
C15_LiveDataMatchesValues ==
    allOverwrite =>
        /\ \A k \in ValidationKey :
               Lookup(validationValues, k) # Undefined =>
                   Lookup(validationValues, k) = Some(req[k])
        /\ InValidate =>
               \A i \in 1..Len(log) :
                   Rejected(i) =>
                       /\ Lookup(validationValues, log[i].key) = Undefined
                       /\ req[log[i].key] = before.req[log[i].key]
                       /\ Lookup(before.validationValues, log[i].key) # Undefined =>
                              Lookup(before.validationValues, log[i].key) =
                                  Some(req[log[i].key])

\* under overwriteRequest a part was accepted and overwritten with the
\* transformed output, and a later validator rejected that output
C15_Witness ==
    /\ allOverwrite
    /\ ValidateReturned
    /\ \E i \in 1..Len(log) :
          /\ Rejected(i)
          /\ Lookup(before.validationValues, log[i].key) = Some("a")
          /\ req[log[i].key] = "a"
          /\ Lookup(validationValues, log[i].key) = Undefined
====
